---- MODULE Spec2Model ----
(***************************************************************************)
(* Version catalog of smr-api: version creation with its duplicate check   *)
(* and 5-per-24h quota (postgres.CreateVersion), the download path         *)
(* (nodes.downloadVersion, postgres.IncrementVersionDownloads), the        *)
(* read-through cache in front of the version queries, and the derivation  *)
(* of the cache keys.  Time is counted in seconds.                         *)
(***************************************************************************)
EXTENDS Integers, Sequences, FiniteSets, TLC

VARIABLES
    now,         \* time.Now(), in seconds
    store,       \* the versions table: row i is the version with the i-th ID
    creator,     \* the CreateVersion calls, one per request goroutine
    heap,        \* the Version structs that GetVersion loaded
    dbCache,     \* dbCache: cache key -> cached value and its expiry
    limiter,     \* redis: the keys CanIncrement admitted, with their expiry
    downloader,  \* the downloadVersion requests, one per request goroutine
    reader,      \* the other callers of the cached queries
    probe        \* two calls of one cached query and the cache keys they derive

vars == <<now, store, creator, heap, dbCache, limiter, downloader, reader, probe>>
readVars == <<heap, dbCache, limiter, downloader, reader>>

\* time.Hour*24 in seconds
Day == 86400
\* "Allow only new 5 versions per 24h"
Quota == 5
\* time.Hour*4 in seconds
LimiterWindow == 14400
\* cache.DefaultExpiration of dbCache, in seconds
CacheTTL == 5

\* Versions uploaded by the modelled requests, on top of the earlier ones.
MaxNew == 2
\* The largest value a download counter is followed to.
MaxDownloads == 2

\* Clock readings of the uploads: the two instants of the earlier uploads,
\* and one day after them give or take a second.
Instants == {0, 2, Day + 1, Day + 2}
\* Clock readings of the downloads: up to and past the expiry of a cache
\* entry, and past the end of a limiter window.
ReadInstants == {2, 2 + CacheTTL, 3 + CacheTTL, 2 + LimiterWindow}
\* Clock readings of the other cached queries.
CacheInstants == {2, 2 + CacheTTL, 3 + CacheTTL}

Mods == {"m1", "m2"}
\* Version names the modelled requests upload.
Names == {"1.0.0", "1.0.1"}
\* Version names of the uploads made before them.
OldNames == <<"0.9.0", "0.9.1", "0.9.2", "0.9.3", "0.9.4">>
Creators == {"c1", "c2"}
Downloaders == {"d1", "d2"}
Readers == {"r1", "r2"}
\* c.RealIP() of the downloads
IPs == {"10.0.0.1", "10.0.0.2"}

\* Strings are sequences of characters; a literal of the source is one
\* character here where nothing is ever cut out of it.
IDChars == <<"1", "2", "3", "4", "5", "6", "7", "8", "9">>
\* util.GenerateUniqueID(): the ID of the i-th row
IDStr(i) == <<IDChars[i]>>
\* c.Param("versionId") of the downloads
RequestIDs == {IDStr(1), IDStr(2)}

IDs == 1..Len(store)

\* The stability the uploader gives a version name.
StabilityOf(v) == IF v \in {"0.9.1", "0.9.3", "1.0.1"} THEN "beta" ELSE "release"

\* The row Create(&version) inserts at time t.
Row(m, v, t) ==
    [mod_id |-> m, version |-> v, created_at |-> t, downloads |-> 0,
     approved |-> FALSE, denied |-> FALSE, stability |-> StabilityOf(v),
     key |-> <<m, v>>]

\* The table after mod m1 uploaded a versions at instant 0 and b more at
\* instant 2, one CreateVersion call after the other, and all of them were
\* approved.
Uploaded(a, b) ==
    [i \in 1..(a + b) |->
        [Row("m1", OldNames[i], IF i <= a THEN 0 ELSE 2) EXCEPT !.approved = TRUE]]

\* Where("mod_id = ? AND version = ?").Count(&versionCount)
CountByName(m, v) ==
    Cardinality({i \in IDs : store[i].mod_id = m /\ store[i].version = v})

\* The window query with the bound moved by a second.
InWindowLate(m, t) ==
    {i \in IDs : store[i].mod_id = m /\ store[i].created_at > t - Day + 1}

\* Find(&versions, "mod_id = ? AND created_at > ?", ModID, now - 24h)
InWindow(m, t) ==
    {i \in IDs : store[i].mod_id = m /\ store[i].created_at > t - Day}

Idle == [pc |-> "idle", mod_id |-> "m1", version |-> "1.0.0", result |-> "none",
         wait |-> -1]

\* A Version struct in memory: the columns of its row and its ID.
Struct(i) == [id |-> IDStr(i), row |-> store[i]]
NoStruct == [id |-> <<>>, row |-> Row("", "", 0)]
Slots == 1..(Cardinality(Downloaders) + Cardinality(Readers) + Cardinality(RequestIDs))
NoRequest ==
    [pc |-> "idle", ip |-> "", id |-> <<>>, ref |-> 0, checked_at |-> -1,
     counted |-> FALSE, status |-> 0, location |-> <<>>]

\* The value of a cached query: a *Version, or a list of versions, or nil.
Pointer(s) == [ref |-> s, rows |-> <<>>, nil |-> FALSE]
List(rows) == [ref |-> 0, rows |-> rows, nil |-> FALSE]
Nil == [ref |-> 0, rows |-> <<>>, nil |-> TRUE]
NoCall ==
    [pc |-> "idle", key |-> <<>>, op |-> "", id |-> <<>>, ids |-> <<>>,
     mod_id |-> "", limit |-> 0, offset |-> 0, orderBy |-> "", order |-> "",
     unapproved |-> FALSE, got |-> Nil,
     answered |-> FALSE, value |-> Nil, queried |-> FALSE, expires |-> -1,
     from |-> "", cancelled |-> FALSE]

\* No request has been served and nothing is cached.
NoParams == [modID |-> <<>>, versionName |-> <<>>, modIds |-> <<>>, limit |-> 0,
             offset |-> 0, orderBy |-> <<>>, order |-> <<>>, unapproved |-> FALSE]
NoProbe == [op |-> "", calls |-> <<NoParams, NoParams>>, keys |-> <<>>]

ReadInit ==
    /\ heap = [s \in Slots |-> NoStruct]
    /\ dbCache = <<>>
    /\ limiter = <<>>
    /\ downloader = [p \in Downloaders |-> NoRequest]
    /\ reader = [p \in Readers |-> NoCall]
    /\ probe = NoProbe

InitCreate ==
    /\ now = 2
    /\ \E a \in 0..1 : \E b \in {0} \cup ((Quota - 1)..(Quota - a)) :
         store = Uploaded(a, b)
    /\ creator = [p \in Creators |-> Idle]
    /\ ReadInit

\* The duplicate query matching the version name alone.
CreateDupCheckAnyMod(p, m, v) ==
    /\ creator[p].pc = "idle"
    /\ IF \E i \in IDs : store[i].version = v
         THEN creator' = [creator EXCEPT ![p] =
                 [pc |-> "idle", mod_id |-> m, version |-> v, result |-> "duplicate",
                  wait |-> -1]]
         ELSE creator' = [creator EXCEPT ![p] =
                 [pc |-> "quota", mod_id |-> m, version |-> v, result |-> "none",
                  wait |-> -1]]
    /\ UNCHANGED <<probe, now, store, readVars>>

\* The call testing the window before the duplicate.
CreateDupCheckAfterQuota(p, m, v) ==
    /\ creator[p].pc = "idle"
    /\ IF Cardinality(InWindow(m, now)) >= Quota
         THEN creator' = [creator EXCEPT ![p] =
                 [pc |-> "idle", mod_id |-> m, version |-> v, result |-> "ratelimit",
                  wait |-> -1]]
         ELSE IF CountByName(m, v) > 0
         THEN creator' = [creator EXCEPT ![p] =
                 [pc |-> "idle", mod_id |-> m, version |-> v, result |-> "duplicate",
                  wait |-> -1]]
         ELSE creator' = [creator EXCEPT ![p] =
                 [pc |-> "quota", mod_id |-> m, version |-> v, result |-> "none",
                  wait |-> -1]]
    /\ UNCHANGED <<probe, now, store, readVars>>

\* CreateVersion(version) with its mod ID and version name: the duplicate
\* query and its test.
CreateDupCheck(p, m, v) ==
    /\ creator[p].pc = "idle"
    /\ IF CountByName(m, v) > 0
         THEN creator' = [creator EXCEPT ![p] =
                 [pc |-> "idle", mod_id |-> m, version |-> v, result |-> "duplicate",
                  wait |-> -1]]
         ELSE creator' = [creator EXCEPT ![p] =
                 [pc |-> "quota", mod_id |-> m, version |-> v, result |-> "none",
                  wait |-> -1]]
    /\ UNCHANGED <<probe, now, store, readVars>>

\* versions[0] of the window query with Order("created_at asc")
Oldest(S) == CHOOSE i \in S : \A j \in S : store[i].created_at <= store[j].created_at
Newest(S) == CHOOSE i \in S : \A j \in S : store[i].created_at >= store[j].created_at

\* Duration.Minutes() printed with %.0f: the minutes of so many seconds,
\* rounded to the nearest whole number and to the even one of two.
Minutes0f(secs) ==
    LET q == secs \div 60
        r == secs % 60
    IN IF r < 30 THEN q
       ELSE IF r > 30 THEN q + 1
       ELSE IF q % 2 = 0 THEN q ELSE q + 1

\* The wait counted from the newest version of the window.
TimeToWaitNewest(m) == Minutes0f(store[Newest(InWindow(m, now))].created_at + Day - now)

\* timeToWait := time.Until(versions[0].CreatedAt.Add(time.Hour * 24)).Minutes()
TimeToWait(m) == Minutes0f(store[Oldest(InWindow(m, now))].created_at + Day - now)

\* The window test letting a fifth version of the window through.
CreateQuotaCheckOver(p) ==
    /\ creator[p].pc = "quota"
    /\ IF Cardinality(InWindow(creator[p].mod_id, now)) > Quota
         THEN creator' = [creator EXCEPT ![p].pc = "idle", ![p].result = "ratelimit",
                                         ![p].wait = TimeToWait(creator[p].mod_id)]
         ELSE creator' = [creator EXCEPT ![p].pc = "insert"]
    /\ UNCHANGED <<probe, now, store, readVars>>

\* The window query and its test.
CreateQuotaCheck(p) ==
    /\ creator[p].pc = "quota"
    /\ IF Cardinality(InWindow(creator[p].mod_id, now)) >= Quota
         THEN creator' = [creator EXCEPT ![p].pc = "idle", ![p].result = "ratelimit",
                                         ![p].wait = TimeToWait(creator[p].mod_id)]
         ELSE creator' = [creator EXCEPT ![p].pc = "insert"]
    /\ UNCHANGED <<probe, now, store, readVars>>

\* version.ID = GenerateUniqueID(); Create(&version)
CreateInsert(p) ==
    /\ creator[p].pc = "insert"
    /\ Cardinality({i \in IDs : store[i].version \in Names}) < MaxNew
    /\ store' = Append(store, Row(creator[p].mod_id, creator[p].version, now))
    /\ creator' = [creator EXCEPT ![p].pc = "idle", ![p].result = "ok"]
    /\ UNCHANGED <<probe, now, readVars>>

\* Time passes between two uploads.
Tick ==
    /\ \E t \in Instants : t > now /\ now' = t
    /\ UNCHANGED <<probe, store, creator, readVars>>

NextCreate ==
    \/ \E p \in Creators, m \in Mods, v \in Names : CreateDupCheck(p, m, v)
    \/ \E p \in Creators : CreateQuotaCheck(p)
    \/ \E p \in Creators : CreateInsert(p)
    \/ Tick

SpecCreate == InitCreate /\ [][NextCreate]_vars

----------------------------------------------------------------------------
(* The download path and the cache in front of GetVersion *)

\* cacheKey := "GetVersion_" + versionID
KeyGetVersion(versionID) == <<"GetVersion", "_">> \o versionID

\* "version:"+versionID, with c.RealIP() and "download"
LimiterKey(ip, versionID) == <<ip, "download", <<"version", ":">> \o versionID>>

\* redis.CanIncrement: the key has not been admitted in the running window.
CanIncrement(k) == k \notin DOMAIN limiter \/ limiter[k] <= now

\* storage.GenerateDownloadLink(key)
GenerateDownloadLink(key) == <<"link", key>>

\* m with the value v under the key k.
Put(m, k, v) == [x \in DOMAIN m \cup {k} |-> IF x = k THEN v ELSE m[x]]

\* dbCache.Get(k): the entry is there and has not expired.
Cached(k) == k \in DOMAIN dbCache /\ now <= dbCache[k].expires

\* The structs some request or cache entry still points to; the others are
\* garbage.
Referenced(cache, requests, calls) ==
    ({cache[k].val.ref : k \in DOMAIN cache}
        \cup {requests[p].ref : p \in Downloaders}
        \cup {calls[p].got.ref : p \in Readers}) \ {0}
Collect(h, cache, requests, calls) ==
    [s \in Slots |-> IF s \in Referenced(cache, requests, calls)
                       THEN h[s] ELSE NoStruct]
NewSlot ==
    CHOOSE s \in Slots :
        /\ s \notin Referenced(dbCache, downloader, reader)
        /\ \A r \in 1..(s - 1) : r \in Referenced(dbCache, downloader, reader)

\* The row First(&version, "id = ?", versionID) finds, 0 when there is none.
RowOf(versionID) ==
    IF \E i \in IDs : IDStr(i) = versionID
      THEN CHOOSE i \in IDs : IDStr(i) = versionID
      ELSE 0

\* The request of p ends with the given response.
Respond(p, status, location, checked, counted) ==
    [downloader EXCEPT ![p] =
        [pc |-> "idle", ip |-> downloader[p].ip, id |-> downloader[p].id,
         ref |-> 0, checked_at |-> checked, counted |-> counted,
         status |-> status, location |-> location]]

InitDownload ==
    /\ now = 2
    /\ store = Uploaded(0, 1)
    /\ creator = [p \in Creators |-> Idle]
    /\ ReadInit

\* downloadVersion enters GetVersion(versionID): the cache lookup.
DlGetVersion(p, ip, versionID) ==
    /\ downloader[p].pc = "idle"
    /\ downloader' = [downloader EXCEPT ![p] =
          [NoRequest EXCEPT
             !.ip = ip, !.id = versionID,
             !.pc = IF Cached(KeyGetVersion(versionID)) THEN "limiter" ELSE "find",
             !.ref = IF Cached(KeyGetVersion(versionID))
                       THEN dbCache[KeyGetVersion(versionID)].val.ref ELSE 0]]
    /\ UNCHANGED <<probe, now, store, creator, heap, dbCache, limiter, reader>>

\* GetVersion on a miss: First(&version, "id = ?", versionID) and the test
\* of version.ID; no version answers 404.
DlFind(p) ==
    /\ downloader[p].pc = "find"
    /\ IF RowOf(downloader[p].id) = 0
         THEN /\ downloader' = Respond(p, 404, <<>>, -1, FALSE)
              /\ heap' = heap
         ELSE /\ heap' = [heap EXCEPT ![NewSlot] = Struct(RowOf(downloader[p].id))]
              /\ downloader' = [downloader EXCEPT ![p].pc = "cache", ![p].ref = NewSlot]
    /\ UNCHANGED <<probe, now, store, creator, dbCache, limiter, reader>>

\* dbCache.Set(cacheKey, &version, cache.DefaultExpiration)
DlCacheSet(p) ==
    /\ downloader[p].pc = "cache"
    /\ dbCache' = Put(dbCache, KeyGetVersion(downloader[p].id),
                      [val |-> Pointer(downloader[p].ref), expires |-> now + CacheTTL,
                       by |-> p])
    /\ downloader' = [downloader EXCEPT ![p].pc = "limiter"]
    /\ heap' = Collect(heap, dbCache', downloader', reader)
    /\ UNCHANGED <<probe, now, store, creator, limiter, reader>>

\* The limiter test counting every download.
DlCanIncrementAlways(p) ==
    /\ downloader[p].pc = "limiter"
    /\ LET k == LimiterKey(downloader[p].ip, downloader[p].id) IN
         /\ limiter' = Put(limiter, k, now + LimiterWindow)
         /\ downloader' = [downloader EXCEPT ![p].pc = "update",
                                             ![p].checked_at = now]
         /\ heap' = heap
    /\ UNCHANGED <<probe, now, store, creator, dbCache, reader>>

\* The limiter test refusing the download of a key it does not admit.
DlCanIncrementOrRefuse(p) ==
    /\ downloader[p].pc = "limiter"
    /\ LET k == LimiterKey(downloader[p].ip, downloader[p].id) IN
       IF CanIncrement(k)
         THEN /\ limiter' = Put(limiter, k, now + LimiterWindow)
              /\ downloader' = [downloader EXCEPT ![p].pc = "update",
                                                  ![p].checked_at = now]
              /\ heap' = heap
         ELSE /\ limiter' = limiter
              /\ downloader' = Respond(p, 429, <<>>, now, FALSE)
              /\ heap' = Collect(heap, dbCache, downloader', reader)
    /\ UNCHANGED <<probe, now, store, creator, dbCache, reader>>

\* The limiter test of downloadVersion; a key that is not admitted goes
\* straight to the redirect.
DlCanIncrement(p) ==
    /\ downloader[p].pc = "limiter"
    /\ LET k == LimiterKey(downloader[p].ip, downloader[p].id) IN
       IF CanIncrement(k)
         THEN /\ limiter' = Put(limiter, k, now + LimiterWindow)
              /\ downloader' = [downloader EXCEPT ![p].pc = "update",
                                                  ![p].checked_at = now]
              /\ heap' = heap
         ELSE /\ limiter' = limiter
              /\ downloader' = Respond(p, 302,
                    GenerateDownloadLink(heap[downloader[p].ref].row.key), now, FALSE)
              /\ heap' = Collect(heap, dbCache, downloader', reader)
    /\ UNCHANGED <<probe, now, store, creator, dbCache, reader>>

\* IncrementVersionDownloads(version): Update("downloads", version.Downloads+1)
\* on the row of version.ID, and the redirect.  The write may fail, which
\* nobody looks at, and the ORM may or may not assign the new value to the
\* struct it was given.
DlIncrement(p) ==
    /\ downloader[p].pc = "update"
    /\ heap[downloader[p].ref].row.downloads < MaxDownloads
    /\ LET ref == downloader[p].ref
           row == RowOf(heap[ref].id)
           n   == heap[ref].row.downloads + 1
       IN \E written \in BOOLEAN, assigned \in BOOLEAN :
            /\ store' = IF written THEN [store EXCEPT ![row].downloads = n] ELSE store
            /\ downloader' = Respond(p, 302, GenerateDownloadLink(heap[ref].row.key),
                                     downloader[p].checked_at, written)
            /\ heap' = Collect(IF assigned THEN [heap EXCEPT ![ref].row.downloads = n]
                                           ELSE heap,
                               dbCache, downloader', reader)
    /\ UNCHANGED <<probe, now, creator, dbCache, limiter, reader>>

\* Time passes between two steps of the downloads: the cache entries and
\* the limiter keys whose time is over are gone.
TickRead(instants) ==
    /\ \E t \in instants : t > now /\ now' = t
    /\ dbCache' = [k \in {x \in DOMAIN dbCache : now' <= dbCache[x].expires}
                     |-> dbCache[k]]
    /\ limiter' = [k \in {x \in DOMAIN limiter : now' < limiter[x]} |-> limiter[k]]
    /\ heap' = Collect(heap, dbCache', downloader, reader)
    /\ UNCHANGED <<probe, store, creator, downloader, reader>>

NextDownload ==
    \/ \E p \in Downloaders, ip \in IPs, id \in RequestIDs : DlGetVersion(p, ip, id)
    \/ \E p \in Downloaders : DlFind(p)
    \/ \E p \in Downloaders : DlCacheSet(p)
    \/ \E p \in Downloaders : DlCanIncrement(p)
    \/ \E p \in Downloaders : DlIncrement(p)
    \/ TickRead(ReadInstants)

SpecDownload == InitDownload /\ [][NextDownload]_vars

----------------------------------------------------------------------------
(* The cached queries *)

RECURSIVE Join(_, _)
\* strings.Join(elems, sep)
Join(elems, sep) ==
    IF Len(elems) = 0 THEN <<>>
    ELSE IF Len(elems) = 1 THEN elems[1]
    ELSE elems[1] \o sep \o Join(Tail(elems), sep)

\* fmt.Sprint of a bool
Sprint(b) == IF b THEN <<"t", "r", "u", "e">> ELSE <<"f", "a", "l", "s", "e">>

\* cacheKey := "GetVersionsById_" + strings.Join(versionIds, ":")
KeyGetVersionsByID(versionIds) == <<"GetVersionsById", "_">> \o Join(versionIds, <<":">>)

\* cacheKey := "GetModLatestVersions_" + modID + "_" + fmt.Sprint(unapproved)
KeyGetModLatestVersions(modID, unapproved) ==
    <<"GetModLatestVersions", "_">> \o modID \o <<"_">> \o Sprint(unapproved)

\* The calls the readers make.
ReadIDs == {IDStr(2)}
ReadIDLists == {<<IDStr(1), IDStr(2)>>}
Calls ==
    {[NoCall EXCEPT !.op = "GetVersion", !.id = id, !.key = KeyGetVersion(id)]
        : id \in ReadIDs}
    \cup {[NoCall EXCEPT !.op = "GetVersionsByID", !.ids = ids,
                         !.key = KeyGetVersionsByID(ids)] : ids \in ReadIDLists}
    \cup {[NoCall EXCEPT !.op = "GetModLatestVersions", !.mod_id = m,
                         !.unapproved = u, !.key = KeyGetModLatestVersions(<<m>>, u)]
            : m \in {"m1"}, u \in {TRUE}}

\* The rows in the order of the table.
RECURSIVE InOrder(_)
InOrder(S) ==
    IF S = {} THEN <<>>
    ELSE LET i == CHOOSE x \in S : \A y \in S : x <= y
         IN <<i>> \o InOrder(S \ {i})

\* First(&version, "id = ?", versionID)
FindGetVersion(versionID) ==
    {IF RowOf(versionID) = 0 THEN <<>> ELSE <<RowOf(versionID)>>}

\* Find(&versions, "id in (?)", versionIds)
FindGetVersionsByID(versionIds) ==
    {InOrder({i \in IDs : \E j \in 1..Len(versionIds) : versionIds[j] = IDStr(i)})}

\* Select("distinct on (mod_id, stability) *").Where("mod_id = ?", modID).
\* Where("approved = ? AND denied = ?", !unapproved, false).
\* Order("mod_id, stability, created_at desc"): of each stability the row
\* created last, any of them when several were created in the same second.
FindGetModLatestVersions(modID, unapproved) ==
    LET match == {i \in IDs : /\ store[i].mod_id = modID
                              /\ store[i].approved = ~unapproved
                              /\ store[i].denied = FALSE}
        first(i) == \A j \in match : store[j].stability = store[i].stability
                                        => store[j].created_at <= store[i].created_at
        picks == {R \in SUBSET {i \in match : first(i)} :
                    \A i \in match : \E j \in R :
                        /\ store[j].stability = store[i].stability
                        /\ \A k \in R : store[k].stability = store[j].stability => k = j}
        rank(i) == IF store[i].stability = "alpha" THEN 1
                   ELSE IF store[i].stability = "beta" THEN 2 ELSE 3
        sorted(R) == CHOOSE q \in [1..Cardinality(R) -> R] :
                        \A a, b \in 1..Cardinality(R) : a < b => rank(q[a]) < rank(q[b])
    IN {sorted(R) : R \in picks}

\* The page of GetModVersions without the test of the approval.
FindGetModVersionsAnyApproval(modID, limit, offset, orderBy, order, unapproved) ==
    LET match == {i \in IDs : store[i].mod_id = modID /\ store[i].denied = FALSE}
        n == Cardinality(match)
        after(i, j) == IF order = "desc" THEN store[i][orderBy] < store[j][orderBy]
                       ELSE store[i][orderBy] > store[j][orderBy]
        orders == {q \in [1..n -> match] :
                     /\ \A a, b \in 1..n : a # b => q[a] # q[b]
                     /\ \A a, b \in 1..n : a < b => ~after(q[a], q[b])}
        last(q) == IF offset + limit < n THEN offset + limit ELSE n
    IN {SubSeq(q, offset + 1, last(q)) : q \in orders}

\* Limit(limit).Offset(offset).Order(orderBy+" "+order).
\* Where("approved = ? AND denied = ?", !unapproved, false).
\* Find(&versions, "mod_id = ?", modID): the page of the matching rows in
\* the order of the column, rows with the same value in any order.
FindGetModVersions(modID, limit, offset, orderBy, order, unapproved) ==
    LET match == {i \in IDs : /\ store[i].mod_id = modID
                              /\ store[i].approved = ~unapproved
                              /\ store[i].denied = FALSE}
        n == Cardinality(match)
        after(i, j) == IF order = "desc" THEN store[i][orderBy] < store[j][orderBy]
                       ELSE store[i][orderBy] > store[j][orderBy]
        orders == {q \in [1..n -> match] :
                     /\ \A a, b \in 1..n : a # b => q[a] # q[b]
                     /\ \A a, b \in 1..n : a < b => ~after(q[a], q[b])}
        last(q) == IF offset + limit < n THEN offset + limit ELSE n
    IN {SubSeq(q, offset + 1, last(q)) : q \in orders}

\* The rows the store query of a call may return.
Find(call) ==
    IF call.op = "GetVersion" THEN FindGetVersion(call.id)
    ELSE IF call.op = "GetVersionsByID" THEN FindGetVersionsByID(call.ids)
    ELSE IF call.op = "GetModVersions"
      THEN FindGetModVersions(call.mod_id, call.limit, call.offset, call.orderBy,
                              call.order, call.unapproved)
    ELSE FindGetModLatestVersions(call.mod_id, call.unapproved)

\* The tests between the store query and dbCache.Set: version.ID == "" in
\* GetVersion, len(versionIds) != len(versions) in GetVersionsByID, none in
\* GetModLatestVersions.  A call that fails its test returns nil.
ReturnsNil(call, found) ==
    IF call.op = "GetVersion" THEN found = <<>>
    ELSE IF call.op = "GetVersionsByID" THEN Len(call.ids) # Len(found)
    ELSE FALSE

\* What the caller sees of a value: the versions it holds.
Seen(val, h) ==
    IF val.nil THEN Nil
    ELSE IF val.ref # 0 THEN List(<<h[val.ref].row>>) ELSE List(val.rows)

\* The call of p returns val, which it has from the cache entry that the
\* call of `from' stored and that expires at `expires'.
Return(p, val, queried, expires, from) ==
    [reader EXCEPT ![p].pc = "idle", ![p].got = Nil, ![p].answered = TRUE,
                   ![p].value = Seen(val, heap), ![p].queried = queried,
                   ![p].expires = expires, ![p].from = from,
                   ![p].cancelled = FALSE]

InitCache ==
    /\ now = 2
    /\ store = Uploaded(0, 1)
    /\ creator = [p \in Creators |-> Idle]
    /\ ReadInit

\* A cached query is called: if (x, ok) := dbCache.Get(cacheKey); ok, the
\* call returns x.
ReadLookup(p, call) ==
    /\ reader[p].pc = "idle"
    /\ heap' = heap
    /\ IF Cached(call.key)
         THEN reader' = [Return(p, dbCache[call.key].val, FALSE,
                                dbCache[call.key].expires, dbCache[call.key].by)
                           EXCEPT ![p].key = call.key, ![p].op = call.op,
                                  ![p].id = call.id, ![p].ids = call.ids,
                                  ![p].mod_id = call.mod_id,
                                  ![p].limit = call.limit,
                                  ![p].offset = call.offset,
                                  ![p].orderBy = call.orderBy,
                                  ![p].order = call.order,
                                  ![p].unapproved = call.unapproved]
         ELSE reader' = [reader EXCEPT ![p] = [call EXCEPT !.pc = "query"]]
    /\ UNCHANGED <<probe, now, store, creator, dbCache, limiter, downloader>>

\* The store query of a call without the test of its result.
ReadQueryUntested(p) ==
    /\ reader[p].pc = "query"
    /\ \E found \in Find(reader[p]) :
         IF ReturnsNil(reader[p], found)
           THEN /\ heap' = heap
                /\ reader' = [reader EXCEPT ![p].pc = "set", ![p].got = Nil]
           ELSE IF reader[p].op = "GetVersion"
           THEN /\ heap' = [heap EXCEPT ![NewSlot] = Struct(found[1])]
                /\ reader' = [reader EXCEPT ![p].pc = "set", ![p].got = Pointer(NewSlot)]
           ELSE /\ heap' = heap
                /\ reader' = [reader EXCEPT ![p].pc = "set",
                       ![p].got = List([j \in 1..Len(found) |-> store[found[j]]])]
    /\ UNCHANGED <<probe, now, store, creator, dbCache, limiter, downloader>>

\* The store query of the call and the test of its result.
ReadQuery(p) ==
    /\ reader[p].pc = "query"
    /\ \E found \in Find(reader[p]) :
         IF ReturnsNil(reader[p], found)
           THEN /\ heap' = heap
                /\ reader' = Return(p, Nil, TRUE, now + CacheTTL, "")
           ELSE IF reader[p].op = "GetVersion"
           THEN /\ heap' = [heap EXCEPT ![NewSlot] = Struct(found[1])]
                /\ reader' = [reader EXCEPT ![p].pc = "set", ![p].got = Pointer(NewSlot)]
           ELSE /\ heap' = heap
                /\ reader' = [reader EXCEPT ![p].pc = "set",
                       ![p].got = List([j \in 1..Len(found) |-> store[found[j]]])]
    /\ UNCHANGED <<probe, now, store, creator, dbCache, limiter, downloader>>

\* dbCache.Set(cacheKey, x, cache.DefaultExpiration) and the return of x.
ReadCacheSet(p) ==
    /\ reader[p].pc = "set"
    /\ dbCache' = Put(dbCache, reader[p].key,
                      [val |-> reader[p].got, expires |-> now + CacheTTL, by |-> p,
                       unapproved |-> reader[p].unapproved])
    /\ reader' = Return(p, reader[p].got, TRUE, now + CacheTTL, p)
    /\ heap' = Collect(heap, dbCache', downloader, reader')
    /\ UNCHANGED <<probe, now, store, creator, limiter, downloader>>

NextCache ==
    \/ \E p \in Readers, call \in Calls : ReadLookup(p, call)
    \/ \E p \in Readers : ReadQuery(p)
    \/ \E p \in Readers : ReadCacheSet(p)
    \/ CreateDupCheck("c1", "m1", "1.0.0")
    \/ CreateQuotaCheck("c1")
    \/ CreateInsert("c1")
    \/ TickRead(CacheInstants)

SpecCache == InitCache /\ [][NextCache]_vars

----------------------------------------------------------------------------
(* The cache keys *)

Digits == <<"0", "1", "2", "3", "4", "5", "6", "7", "8", "9">>

RECURSIVE SprintInt(_)
\* fmt.Sprint of a non-negative int
SprintInt(n) ==
    IF n < 10 THEN <<Digits[n + 1]>>
    ELSE SprintInt(n \div 10) \o <<Digits[(n % 10) + 1]>>

\* cacheKey := "GetModVersionByName_" + modID + "_" + versionName
KeyGetModVersionByName(modID, versionName) ==
    <<"GetModVersionByName", "_">> \o modID \o <<"_">> \o versionName

\* The key of GetModVersions without the visibility flag.
KeyGetModVersionsShared(modID, limit, offset, orderBy, order, unapproved) ==
    <<"GetModVersions", "_">> \o modID \o <<"_">> \o SprintInt(limit) \o <<"_">>
        \o SprintInt(offset) \o <<"_">> \o orderBy \o <<"_">> \o order

\* cacheKey := "GetModVersions_" + modID + "_" + fmt.Sprint(limit) + "_" +
\*     fmt.Sprint(offset) + "_" + orderBy + "_" + order + "_" + fmt.Sprint(unapproved)
KeyGetModVersions(modID, limit, offset, orderBy, order, unapproved) ==
    <<"GetModVersions", "_">> \o modID \o <<"_">> \o SprintInt(limit) \o <<"_">>
        \o SprintInt(offset) \o <<"_">> \o orderBy \o <<"_">> \o order
        \o <<"_">> \o Sprint(unapproved)

\* cacheKey := "GetModsLatestVersions_" + strings.Join(modIds, ":") + "_" +
\*     fmt.Sprint(unapproved)
KeyGetModsLatestVersions(modIds, unapproved) ==
    <<"GetModsLatestVersions", "_">> \o Join(modIds, <<":">>) \o <<"_">>
        \o Sprint(unapproved)

\* The parameter strings: the strings of one or two characters.
StringsOver(chars) == UNION {[1..n -> chars] : n \in {1, 2}}
NameStrings == StringsOver({"a", "_"})
IDStrings == StringsOver({"a", ":"})
IDLists == UNION {[1..n -> IDStrings] : n \in {1, 2}}

\* The parameter tuples of the calls.
ParamsOf(op) ==
    IF op = "GetModVersionByName"
      THEN {[NoParams EXCEPT !.modID = m, !.versionName = v]
                : m \in NameStrings, v \in NameStrings}
    ELSE IF op = "GetModVersions"
      THEN {[NoParams EXCEPT !.modID = <<"a">>, !.limit = l[1], !.offset = l[2],
                             !.orderBy = ob, !.order = o, !.unapproved = u]
                : l \in {<<10, 0>>, <<1, 10>>}, ob \in NameStrings,
                  o \in NameStrings, u \in BOOLEAN}
    ELSE {[NoParams EXCEPT !.modIds = ids, !.unapproved = u]
                : ids \in IDLists, u \in BOOLEAN}

KeyOps == {"GetModVersionByName", "GetModVersions", "GetModsLatestVersions"}

InitKeys ==
    /\ now = 2
    /\ store = Uploaded(0, 1)
    /\ creator = [p \in Creators |-> Idle]
    /\ heap = [s \in Slots |-> NoStruct]
    /\ dbCache = <<>>
    /\ limiter = <<>>
    /\ downloader = [p \in Downloaders |-> NoRequest]
    /\ reader = [p \in Readers |-> NoCall]
    /\ \E op \in KeyOps : \E a \in ParamsOf(op) : \E b \in ParamsOf(op) :
         probe = [op |-> op, calls |-> <<a, b>>, keys |-> <<>>]

\* The two calls of GetModVersionByName derive their cache keys.
DeriveGetModVersionByName ==
    /\ probe.op = "GetModVersionByName"
    /\ probe.keys = <<>>
    /\ probe' = [probe EXCEPT !.keys =
           [i \in 1..2 |-> KeyGetModVersionByName(probe.calls[i].modID,
                                                  probe.calls[i].versionName)]]
    /\ UNCHANGED <<now, store, creator, readVars>>

\* The two calls of GetModVersions derive their cache keys.
DeriveGetModVersions ==
    /\ probe.op = "GetModVersions"
    /\ probe.keys = <<>>
    /\ probe' = [probe EXCEPT !.keys =
           [i \in 1..2 |-> LET c == probe.calls[i]
                           IN  KeyGetModVersions(c.modID, c.limit, c.offset,
                                                 c.orderBy, c.order, c.unapproved)]]
    /\ UNCHANGED <<now, store, creator, readVars>>

\* The two calls of GetModsLatestVersions derive their cache keys.
DeriveGetModsLatestVersions ==
    /\ probe.op = "GetModsLatestVersions"
    /\ probe.keys = <<>>
    /\ probe' = [probe EXCEPT !.keys =
           [i \in 1..2 |-> KeyGetModsLatestVersions(probe.calls[i].modIds,
                                                    probe.calls[i].unapproved)]]
    /\ UNCHANGED <<now, store, creator, readVars>>

NextKeys ==
    \/ DeriveGetModVersionByName
    \/ DeriveGetModVersions
    \/ DeriveGetModsLatestVersions

SpecKeys == InitKeys /\ [][NextKeys]_vars

----------------------------------------------------------------------------
(* The list views and the review of the versions *)

\* The calls of the list view: the versions of mod m1, newest first, for
\* the public and for the reviewers.
ListCalls ==
    {[NoCall EXCEPT !.op = "GetModVersions", !.mod_id = "m1", !.limit = 10,
                    !.offset = 0, !.orderBy = "created_at", !.order = "desc",
                    !.unapproved = u,
                    !.key = KeyGetModVersions(<<"m1">>, 10, 0, <<"created_at">>,
                                              <<"desc">>, u)] : u \in BOOLEAN}

\* The verdicts of the review: approved, denied.
Verdicts == {<<TRUE, FALSE>>, <<FALSE, TRUE>>}

\* The table holds an approved version of m1 and one that awaits review.
InitList ==
    /\ now = 2
    /\ store = Uploaded(0, 1) \o <<Row("m1", "1.0.0", 2)>>
    /\ creator = [p \in Creators |-> Idle]
    /\ ReadInit

\* The review (outside this package) approves or denies a version.
Review(i, verdict) ==
    /\ <<store[i].approved, store[i].denied>> # verdict
    /\ store' = [store EXCEPT ![i].approved = verdict[1], ![i].denied = verdict[2]]
    /\ UNCHANGED <<probe, now, creator, readVars>>

\* The store query of the call is cancelled or fails: the error is not
\* looked at and the result holds no row.
ReadQueryCancelled(p) ==
    /\ reader[p].pc = "query"
    /\ heap' = heap
    /\ IF ReturnsNil(reader[p], <<>>)
         THEN reader' = Return(p, Nil, TRUE, now + CacheTTL, "")
         ELSE reader' = [reader EXCEPT ![p].pc = "set", ![p].got = List(<<>>),
                                       ![p].cancelled = TRUE]
    /\ UNCHANGED <<probe, now, store, creator, dbCache, limiter, downloader>>

NextList ==
    \/ \E p \in Readers, call \in ListCalls : ReadLookup(p, call)
    \/ \E p \in Readers : ReadQuery(p)
    \/ \E p \in Readers : ReadQueryCancelled(p)
    \/ \E p \in Readers : ReadCacheSet(p)
    \/ \E i \in {2}, verdict \in Verdicts : Review(i, verdict)
    \/ TickRead(CacheInstants)

SpecList == InitList /\ [][NextList]_vars

----------------------------------------------------------------------------
(* Version creation *)

\* The versions of mod m created in the 24 hours up to and including t.
CreatedWithin(m, t) ==
    {i \in IDs : store[i].mod_id = m /\ store[i].created_at > t - Day
                                      /\ store[i].created_at <= t}

\* The call of p takes the step that ends it or moves it on.
Steps(p, from) == creator[p].pc = from /\ creator'[p] # creator[p]

\* C1: a CreateVersion call that finds exactly 5 versions of its mod in the
\* trailing 24 hours ends with the rate-limit error and leaves the table as
\* it is; one that finds exactly 4 goes on to insert, and the insert appends
\* the new version and ends the call without error.
C1_QuotaOfFive ==
    [][\A p \in Creators :
         /\ Steps(p, "quota") =>
               LET n == Cardinality(CreatedWithin(creator[p].mod_id, now)) IN
               /\ n = 5 => /\ creator'[p].pc = "idle"
                           /\ creator'[p].result = "ratelimit"
                           /\ store' = store
               /\ n = 4 => /\ creator'[p].pc = "insert"
                           /\ store' = store
         /\ Steps(p, "insert") =>
               /\ creator'[p].pc = "idle"
               /\ creator'[p].result = "ok"
               /\ Len(store') = Len(store) + 1
               /\ store'[Len(store')].mod_id = creator[p].mod_id
               /\ store'[Len(store')].version = creator[p].version
               /\ store'[Len(store')].created_at = now
               /\ \A i \in IDs : store'[i] = store[i]]_vars

\* One call was admitted as the fifth version of the window and the next
\* was turned away.
C1_Witness ==
    /\ Len(store) > 0
    /\ store[Len(store)].version \in Names
    /\ store[Len(store)].mod_id = "m1"
    /\ Cardinality(CreatedWithin("m1", now)) = 5
    /\ \E p, q \in Creators :
          /\ creator[p].pc = "idle" /\ creator[p].result = "ratelimit"
          /\ creator[p].mod_id = "m1"
          /\ creator[q].pc = "idle" /\ creator[q].result = "ok"
          /\ creator[q].mod_id = "m1"

\* C2: no two versions that are not denied have the same mod ID and the
\* same version name.
C2_UniqueNames ==
    \A i, j \in IDs :
        (i # j /\ ~store[i].denied /\ ~store[j].denied)
            => ~(store[i].mod_id = store[j].mod_id
                 /\ store[i].version = store[j].version)

\* C3: a CreateVersion call whose version name is that of a version of the
\* same mod that is not denied ends with the duplicate error and leaves the
\* table as it is; a call whose name is used by another mod only passes the
\* duplicate test, and once it finds its mod under the quota it inserts.
C3_DuplicatePerMod ==
    [][\A p \in Creators :
         /\ Steps(p, "idle") =>
               LET m == creator'[p].mod_id
                   v == creator'[p].version
                   same  == \E i \in IDs : /\ store[i].mod_id = m
                                           /\ store[i].version = v
                                           /\ ~store[i].denied
                   other == /\ \E i \in IDs : store[i].mod_id # m /\ store[i].version = v
                            /\ ~\E i \in IDs : store[i].mod_id = m /\ store[i].version = v
               IN /\ same => /\ creator'[p].pc = "idle"
                             /\ creator'[p].result = "duplicate"
                             /\ store' = store
                  /\ other => creator'[p].pc = "quota"
         /\ (Steps(p, "quota")
               /\ Cardinality(CreatedWithin(creator[p].mod_id, now)) < 5)
               => creator'[p].pc = "insert"
         /\ Steps(p, "insert") =>
               /\ creator'[p].result = "ok"
               /\ store' = Append(store, Row(creator[p].mod_id, creator[p].version, now))]_vars

\* One call was refused a name its mod already has, another uploaded that
\* name for the other mod.
C3_Witness ==
    \E p, q \in Creators : \E i, j \in IDs :
        /\ creator[p].pc = "idle" /\ creator[p].result = "duplicate"
        /\ creator[q].pc = "idle" /\ creator[q].result = "ok"
        /\ creator[p].version = creator[q].version
        /\ creator[p].mod_id # creator[q].mod_id
        /\ i < j
        /\ store[i].mod_id = creator[p].mod_id /\ store[i].version = creator[p].version
        /\ ~store[i].denied
        /\ store[j].mod_id = creator[q].mod_id /\ store[j].version = creator[q].version

\* C4: no mod has more than 5 versions created inside one interval
\* (t - 24h, t].
C4_FivePerWindow ==
    \A m \in Mods : \A t \in Instants \cup {store[i].created_at : i \in IDs} :
        Cardinality(CreatedWithin(m, t)) <= 5

\* C5: in the window test a version created a second or more inside the 24
\* hours counts towards the 5, and a version created a second or more
\* outside them does not.
C5_WindowBoundary ==
    [][\A p \in Creators :
         Steps(p, "quota") =>
           LET m == creator[p].mod_id
               inside  == {i \in IDs : store[i].mod_id = m
                                       /\ store[i].created_at >= now - Day + 1}
               outside == {i \in IDs : store[i].mod_id = m
                                       /\ store[i].created_at <= now - Day - 1}
               others  == {i \in IDs : store[i].mod_id = m} \ outside
           IN /\ Cardinality(inside) >= 5 => creator'[p].result = "ratelimit"
              /\ Cardinality(others) < 5 => creator'[p].pc = "insert"]_vars

\* A call was admitted past a version created at now-24h-1s, and the next
\* was turned away by the versions created at now-24h+1s.
C5_Witness ==
    /\ \E i \in IDs : store[i].mod_id = "m1" /\ store[i].created_at = now - Day - 1
    /\ \E i \in IDs : store[i].mod_id = "m1" /\ store[i].created_at = now - Day + 1
    /\ \E i \in IDs : /\ store[i].mod_id = "m1" /\ store[i].created_at = now
                       /\ store[i].version \in Names
    /\ Cardinality({i \in IDs : store[i].mod_id = "m1"
                                 /\ store[i].created_at >= now - Day + 1}) = 5
    /\ \E p \in Creators : /\ creator[p].pc = "idle" /\ creator[p].result = "ratelimit"
                            /\ creator[p].mod_id = "m1"

----------------------------------------------------------------------------
(* Downloads *)

\* The request of p has been answered.
Answered(p) == downloader[p].pc = "idle" /\ downloader[p].status # 0

\* C6: of two answered downloadVersion requests with the same client IP and
\* the same version ID whose limiter tests lie less than 4 hours apart, at
\* most one has written the download counter, and both were answered with
\* the redirect to the version's download link.
C6_CountedOncePerWindow ==
    \A p, q \in Downloaders :
        ( /\ p # q /\ Answered(p) /\ Answered(q)
          /\ downloader[p].ip = downloader[q].ip
          /\ downloader[p].id = downloader[q].id
          /\ downloader[p].checked_at >= 0 /\ downloader[q].checked_at >= 0
          /\ downloader[p].checked_at - downloader[q].checked_at < 4 * 3600
          /\ downloader[q].checked_at - downloader[p].checked_at < 4 * 3600 )
        => /\ ~(downloader[p].counted /\ downloader[q].counted)
           /\ downloader[p].status = 302 /\ downloader[q].status = 302
           /\ downloader[p].location
                = GenerateDownloadLink(store[RowOf(downloader[p].id)].key)
           /\ downloader[q].location = downloader[p].location

\* Two requests of one client for one version in one window: one was
\* counted, the other was not, and the counter stands at 1.
C6_Witness ==
    \E p, q \in Downloaders :
        /\ p # q /\ Answered(p) /\ Answered(q)
        /\ downloader[p].ip = downloader[q].ip
        /\ downloader[p].id = downloader[q].id
        /\ downloader[p].checked_at >= 0
        /\ downloader[q].checked_at > downloader[p].checked_at
        /\ downloader[q].checked_at - downloader[p].checked_at < 4 * 3600
        /\ downloader[p].counted /\ ~downloader[q].counted
        /\ downloader[p].status = 302 /\ downloader[q].status = 302
        /\ store[RowOf(downloader[p].id)].downloads = 1

\* C7: no step lowers the download counter of a version.
C7_CounterMonotone ==
    [][\A i \in IDs : store'[i].downloads >= store[i].downloads]_vars

\* C8: a downloadVersion request for the ID of a known version is answered
\* with the redirect to that version's download link and nothing else; a
\* request for an ID without version is answered 404, has not been to the
\* limiter and has written no counter, and the step that answers it leaves
\* the limiter and the table as they are.
C8_RedirectOrNotFound ==
    /\ [](\A p \in Downloaders :
            /\ Answered(p) =>
                 IF RowOf(downloader[p].id) # 0
                   THEN /\ downloader[p].status = 302
                        /\ downloader[p].location
                             = GenerateDownloadLink(store[RowOf(downloader[p].id)].key)
                   ELSE /\ downloader[p].status = 404
                        /\ downloader[p].checked_at = -1
                        /\ ~downloader[p].counted
            /\ downloader[p].pc \in {"limiter", "update"}
                 => RowOf(downloader[p].id) # 0)
    /\ [][\A p \in Downloaders :
            (downloader'[p] # downloader[p] /\ downloader'[p].status = 404)
                => (limiter' = limiter /\ store' = store)]_vars

\* One request was answered 404, another was redirected although the
\* counter did not advance for it.
C8_Witness ==
    \E p, q \in Downloaders :
        /\ Answered(p) /\ downloader[p].status = 404
        /\ Answered(q) /\ downloader[q].status = 302
        /\ downloader[q].checked_at >= 0 /\ ~downloader[q].counted
        /\ store[RowOf(downloader[q].id)].downloads = 0

----------------------------------------------------------------------------
(* The cache *)

\* Reader q calls a cached query.
Calling(q) == reader[q].pc = "idle" /\ reader'[q] # reader[q]

\* The call that p made last has returned, with the parameters q calls
\* with now, and the TTL counted from the cache write of its result (from
\* its return, when it wrote none) has not elapsed.
Repeats(q, p) ==
    /\ Calling(q)
    /\ reader[p].pc = "idle" /\ reader[p].answered
    /\ reader[p].key = reader'[q].key
    /\ now < reader[p].expires

\* C9 as claimed: a call of a cached query with the parameters of a call
\* that returned V less than the TTL ago returns V without a store query,
\* whatever V is.
C9_SecondCallFromCache ==
    [][\A p, q \in Readers :
         Repeats(q, p) => /\ reader'[q].pc = "idle"
                          /\ ~reader'[q].queried
                          /\ reader'[q].value = reader[p].value]_vars

\* C9: a call of a cached query with the parameters of a call that
\* returned a value V other than nil less than the TTL ago returns from the
\* cache without a store query, and returns V when the entry V came from
\* has not been overwritten since.  nil (GetVersion finding no version,
\* GetVersionsByID finding fewer versions than IDs) is returned without a
\* cache write and never served from the cache: the call after it queries
\* the store again unless another call has cached a result meanwhile.
C9_CachedResultServed ==
    /\ [](\A k \in DOMAIN dbCache : ~dbCache[k].val.nil)
    /\ [][\A p, q \in Readers :
            Repeats(q, p) =>
              IF reader[p].value.nil
                THEN /\ reader[p].op \in {"GetVersion", "GetVersionsByID"}
                     /\ reader'[q].pc = "query" \/ ~reader'[q].value.nil
                     /\ ~Cached(reader[p].key) => reader'[q].pc = "query"
                ELSE /\ reader'[q].pc = "idle"
                     /\ ~reader'[q].queried
                     /\ ( /\ dbCache[reader[p].key].by = reader[p].from
                          /\ dbCache[reader[p].key].expires = reader[p].expires )
                          => reader'[q].value = reader[p].value]_vars
    /\ [][\A p \in Readers :
            (reader[p].pc = "query" /\ reader'[p].pc = "idle")
                => /\ reader'[p].value.nil
                   /\ dbCache' = dbCache]_vars

\* A call stored an empty list, and a second call with its parameters was
\* served that list from the cache.
C9_Witness ==
    \E p, q \in Readers :
        /\ p # q
        /\ reader[p].pc = "idle" /\ reader[p].answered /\ reader[p].queried
        /\ reader[p].op = "GetModLatestVersions"
        /\ reader[p].value = List(<<>>)
        /\ reader[q].pc = "idle" /\ reader[q].answered /\ ~reader[q].queried
        /\ reader[q].key = reader[p].key
        /\ reader[q].from = p
        /\ reader[q].value = reader[p].value

----------------------------------------------------------------------------
(* The cache keys *)

\* C10: two calls of one cached query whose parameter tuples differ never
\* derive the same cache key, also when the parameter strings contain the
\* separators '_' and ':'.
C10_DistinctParamsDistinctKeys ==
    (probe.keys # <<>> /\ probe.calls[1] # probe.calls[2])
        => probe.keys[1] # probe.keys[2]

----------------------------------------------------------------------------
(* The list views *)

\* Reader q is served from the cache.
Hit(q) == Calling(q) /\ reader'[q].pc = "idle"

\* C11: a result that a list call computed with one value of the unapproved
\* flag is cached under a key that no call with the other value uses, and is
\* never returned to such a call.
C11_ViewsApart ==
    /\ [](\A k \in DOMAIN dbCache : \A c \in ListCalls :
             c.key = k => dbCache[k].unapproved = c.unapproved)
    /\ [][\A q \in Readers :
            Hit(q) => /\ dbCache[reader'[q].key].unapproved = reader'[q].unapproved
                      /\ reader'[q].value = Seen(dbCache[reader'[q].key].val, heap)]_vars

\* The public and the reviewers' list are both cached, they differ, and a
\* public call has been served from the cache.
C11_Witness ==
    /\ \A c \in ListCalls : Cached(c.key)
    /\ \E c, d \in ListCalls : dbCache[c.key].val # dbCache[d.key].val
    /\ \E q \in Readers :
         /\ reader[q].pc = "idle" /\ reader[q].answered /\ ~reader[q].queried
         /\ ~reader[q].unapproved
         /\ reader[q].value.rows # <<>>

\* Reader q returns from its call.
Returns(q) == reader'[q] # reader[q] /\ reader'[q].pc = "idle"

\* The rows of the table that hold the version a returned struct shows.
RowsOf(version) ==
    {i \in IDs : store[i].mod_id = version.mod_id /\ store[i].version = version.version}

Shown(rows) == {rows[j] : j \in 1..Len(rows)}

\* C12 as claimed: a public list call never returns a version that is
\* unapproved or denied in the table when the call returns.
C12_PublicSeesApprovedNow ==
    [][\A q \in Readers :
         (Returns(q) /\ ~reader'[q].unapproved) =>
             \A v \in Shown(reader'[q].value.rows) : \A i \in RowsOf(v) :
                 store'[i].approved /\ ~store'[i].denied]_vars

\* C12: a public list call never returns a version that was unapproved or
\* denied in the table when the returned list was read from the table; a
\* list served from the cache is the list as it was read.
C12_PublicSeesApprovedAsRead ==
    /\ [][\A q \in Readers :
            (reader[q].pc = "query" /\ reader'[q].pc = "set" /\ ~reader[q].unapproved)
                => \A v \in Shown(reader'[q].got.rows) :
                     /\ v.approved /\ ~v.denied
                     /\ \E i \in RowsOf(v) : store[i] = v]_vars
    /\ [](\A q \in Readers :
            (reader[q].answered /\ ~reader[q].unapproved)
                => \A v \in Shown(reader[q].value.rows) : v.approved /\ ~v.denied)
    /\ [](\A k \in DOMAIN dbCache :
            ~dbCache[k].unapproved
                => \A v \in Shown(dbCache[k].val.rows) : v.approved /\ ~v.denied)

\* A public call was served from the cache a version that has been denied
\* since the list was read.
C12_Witness ==
    \E q \in Readers :
        /\ reader[q].pc = "idle" /\ reader[q].answered /\ ~reader[q].queried
        /\ ~reader[q].unapproved
        /\ \E v \in Shown(reader[q].value.rows) : \E i \in RowsOf(v) : store[i].denied

\* C13: a call of GetModLatestVersions that starts more than one TTL after
\* a version was created returns a list that reflects the creation: of the
\* stability of every version it is to show that is older than one TTL, it
\* holds that version or a newer one.
C13_StaleAtMostOneTTL ==
    [][\A q \in Readers :
         (Hit(q) /\ reader'[q].op = "GetModLatestVersions") =>
             \A i \in IDs :
                 ( /\ store[i].mod_id = reader'[q].mod_id
                   /\ store[i].approved = ~reader'[q].unapproved
                   /\ ~store[i].denied
                   /\ store[i].created_at + CacheTTL < now )
                 => \E v \in Shown(reader'[q].value.rows) :
                        /\ v.stability = store[i].stability
                        /\ v.created_at >= store[i].created_at]_vars

\* C14: a call whose store read was cancelled or failed writes nothing to
\* the cache, so that no later call is served its empty result.
C14_CancelledReadNotCached ==
    [][\A p \in Readers :
         (reader[p].cancelled /\ Returns(p))
             => /\ dbCache' = dbCache
                /\ ~Cached(reader[p].key)' \/ dbCache'[reader[p].key].by # p]_vars

----------------------------------------------------------------------------
(* Version creation: the errors *)

\* C15: a CreateVersion call for a mod that has a version of the requested
\* name and 5 or more versions created in the trailing 24 hours ends with
\* the duplicate error, not with the rate-limit error.
C15_DuplicateBeforeQuota ==
    [][\A p \in Creators :
         ( /\ Steps(p, "idle")
           /\ \E i \in IDs : /\ store[i].mod_id = creator'[p].mod_id
                             /\ store[i].version = creator'[p].version
           /\ Cardinality(CreatedWithin(creator'[p].mod_id, now)) >= 5 )
             => /\ creator'[p].pc = "idle"
                /\ creator'[p].result = "duplicate"
                /\ store' = store]_vars

\* A call was refused as a duplicate for a mod that is at its quota.
C15_Witness ==
    \E p \in Creators :
        /\ creator[p].pc = "idle" /\ creator[p].result = "duplicate"
        /\ \E i \in IDs : /\ store[i].mod_id = creator[p].mod_id
                          /\ store[i].version = creator[p].version
        /\ Cardinality(CreatedWithin(creator[p].mod_id, now)) >= 5

\* The seconds until the oldest version of mod m in the window leaves it.
Remaining(m) ==
    LET window == CreatedWithin(m, now)
        oldest == CHOOSE t \in {store[i].created_at : i \in window} :
                      \A i \in window : t <= store[i].created_at
    IN IF window = {} THEN 0 ELSE oldest + Day - now

\* The whole minutes nearest to so many seconds.
Nearest(secs, mins) == 2 * (60 * mins - secs) \in -60..60

----------------------------------------------------------------------------
(* Downloads: the count *)

\* C17: no counted download is lost: the write of the counter for a
\* download the limiter admitted leaves the counter of the version one
\* above what it was, so that N admitted downloads raise it by N.
C17_NoLostDownload ==
    [][\A p \in Downloaders :
         (downloader[p].pc = "update" /\ downloader'[p].counted) =>
             LET i == RowOf(downloader[p].id)
             IN  store'[i].downloads = store[i].downloads + 1]_vars

----------------------------------------------------------------------------
(* The operations that bypass the cache *)

\* What the cache holds: under each key the versions a hit shows, and the
\* expiry.
Entries ==
    [k \in DOMAIN dbCache |->
        [shows |-> Seen(dbCache[k].val, heap), expires |-> dbCache[k].expires]]

\* C18: the steps of CreateVersion and of IncrementVersionDownloads leave
\* every cache entry as it is.
C18_CacheUntouched ==
    [][ /\ \A p \in Creators : creator'[p] # creator[p] => Entries' = Entries
        /\ \A p \in Downloaders :
             (downloader[p].pc = "update" /\ downloader'[p] # downloader[p])
                 => Entries' = Entries ]_vars

----------------------------------------------------------------------------
(* The list views: the visibility flag *)

\* C19: the list that a call with unapproved=true reads from the table
\* holds every version that the same call with unapproved=false reads from
\* the table in that state.
C19_FlagWidens ==
    [][\A q \in Readers :
         ( /\ reader[q].pc = "query" /\ reader'[q].pc = "set"
           /\ ~reader'[q].cancelled
           /\ reader[q].op = "GetModVersions" /\ reader[q].unapproved )
         => \A public \in FindGetModVersions(reader[q].mod_id, reader[q].limit,
                              reader[q].offset, reader[q].orderBy, reader[q].order, FALSE) :
                \A j \in 1..Len(public) :
                    store[public[j]] \in Shown(reader'[q].got.rows)]_vars

----------------------------------------------------------------------------
(* The lookups that find nothing *)

\* The rows the struct or list of a returned value shows are those of the
\* versions with the given IDs.
ShowsIDs(value, ids) ==
    /\ ~value.nil
    /\ Len(value.rows) = Cardinality(ids)
    /\ \A id \in ids : \E j \in 1..Len(value.rows) :
           /\ value.rows[j].mod_id = store[RowOf(id)].mod_id
           /\ value.rows[j].version = store[RowOf(id)].version

\* The IDs a lookup asks for.
Asked(call) ==
    IF call.op = "GetVersion" THEN {call.id}
    ELSE {call.ids[j] : j \in 1..Len(call.ids)}

\* C20: a not-found result of GetVersion or GetVersionsByID is never stored
\* in the cache: a lookup that returns once CreateVersion has persisted the
\* versions it asks for returns them, also within one TTL of a lookup with
\* the same parameters that returned nil; nil is returned only from a
\* store query that did not find every version.
C20_NotFoundNotCached ==
    /\ [](\A k \in DOMAIN dbCache : ~dbCache[k].val.nil)
    /\ [][\A q \in Readers :
            (Returns(q) /\ reader'[q].op \in {"GetVersion", "GetVersionsByID"}) =>
                /\ (\A id \in Asked(reader'[q]) : RowOf(id) # 0)
                      => ShowsIDs(reader'[q].value, Asked(reader'[q]))
                /\ reader'[q].value.nil
                      => /\ reader[q].pc = "query"
                         /\ \E id \in Asked(reader'[q]) : RowOf(id) = 0]_vars

\* A lookup returned nil, the version was created, and within one TTL of
\* the failed lookup a lookup with the same parameters returned it.
C20_Witness ==
    \E p, q \in Readers :
        /\ p # q
        /\ reader[p].pc = "idle" /\ reader[p].answered /\ reader[p].value.nil
        /\ now < reader[p].expires
        /\ reader[q].pc = "idle" /\ reader[q].answered
        /\ reader[q].key = reader[p].key
        /\ reader[q].op = "GetVersion"
        /\ ShowsIDs(reader[q].value, Asked(reader[q]))
====
